---------------------------- MODULE Spec2Model ----------------------------
(***************************************************************************)
(* Model of src/app.py: the Streamlit script of the marine bridge          *)
(* simulator.  Every slider change reruns the whole script: the physics    *)
(* engine (lines 22-53), the metrics, the figure and the integrity banner  *)
(* (lines 107-111).                                                        *)
(*                                                                         *)
(* Arithmetic.  The script computes in Python floats.  TLC has only 32-bit *)
(* integers, so a float is modelled by the exact number it stands for: a   *)
(* sign, a numerator and a denominator held as sequences of base-10000     *)
(* limbs (least significant first), and a count of base-10000 fractional   *)
(* limbs.  The operations are exact (no rounding); np.pi is the decimal    *)
(* 3.141592653589793 that Python prints for it.  np.sqrt(q) is held as the *)
(* non-negative root of the exact q and compared through its square.       *)
(***************************************************************************)
EXTENDS Integers, Sequences, FiniteSets, TLC

Base == 10000

-----------------------------------------------------------------------------
(* Natural numbers as limb sequences: <<>> is 0, no leading zero limb.     *)

RECURSIVE Strip(_)
Strip(s) ==
    IF s = <<>> THEN s
    ELSE IF s[Len(s)] = 0 THEN Strip(SubSeq(s, 1, Len(s) - 1)) ELSE s

RECURSIVE Limbs(_)
Limbs(n) == IF n = 0 THEN <<>> ELSE <<n % Base>> \o Limbs(n \div Base)

Digit(s, i) == IF i >= 1 /\ i <= Len(s) THEN s[i] ELSE 0

Max2(a, b) == IF a >= b THEN a ELSE b
Min2(a, b) == IF a <= b THEN a ELSE b

(* Carry propagation over columns that may lie outside 0..Base-1.          *)
RECURSIVE Carry(_, _, _)
Carry(cols, i, c) ==
    IF i > Len(cols) THEN Limbs(c)
    ELSE LET d == cols[i] + c
         IN  <<d % Base>> \o Carry(cols, i + 1, d \div Base)

NatAdd(a, b) ==
    Strip(Carry([k \in 1..Max2(Len(a), Len(b)) |-> Digit(a, k) + Digit(b, k)], 1, 0))

(* a - b for a >= b *)
NatSub(a, b) ==
    Strip(Carry([k \in 1..Len(a) |-> a[k] - Digit(b, k)], 1, 0))

RECURSIVE NatCmpFrom(_, _, _)
NatCmpFrom(a, b, i) ==
    IF i = 0 THEN 0
    ELSE IF a[i] > b[i] THEN 1
    ELSE IF a[i] < b[i] THEN -1
    ELSE NatCmpFrom(a, b, i - 1)

NatCmp(a, b) ==
    IF Len(a) > Len(b) THEN 1
    ELSE IF Len(a) < Len(b) THEN -1
    ELSE NatCmpFrom(a, b, Len(a))

RECURSIVE ColSum(_, _, _, _, _)
ColSum(a, b, k, i, hi) ==
    IF i > hi THEN 0 ELSE a[i] * b[k + 1 - i] + ColSum(a, b, k, i + 1, hi)

(* the schoolbook product; a column sums at most Chunk products of limbs,  *)
(* which keeps it within TLC's 32-bit integers                              *)
NatMulShort(a, b) ==
    IF a = <<>> \/ b = <<>> THEN <<>>
    ELSE IF b = <<1>> THEN a
    ELSE IF a = <<1>> THEN b
    ELSE Strip(Carry([k \in 1..(Len(a) + Len(b) - 1) |->
                        ColSum(a, b, k, Max2(1, k + 1 - Len(b)), Min2(Len(a), k))],
                     1, 0))

Zeros(k) == [i \in 1..k |-> 0]

ShiftUp(a, k) == IF a = <<>> \/ k = 0 THEN a ELSE Zeros(k) \o a

Chunk == 20

RECURSIVE NatMul(_, _)
NatMul(a, b) ==
    IF Len(b) <= Chunk THEN NatMulShort(a, b)
    ELSE NatAdd(NatMulShort(a, SubSeq(b, 1, Chunk)),
                ShiftUp(NatMul(a, Strip(SubSeq(b, Chunk + 1, Len(b)))), Chunk))

-----------------------------------------------------------------------------
(* Exact numbers: sg * num / (den * Base^ex).                              *)

RECURSIVE Mk(_, _, _, _)
Mk(sg, num, den, ex) ==
    IF num = <<>> \/ sg = 0 THEN [sg |-> 0, num |-> <<>>, den |-> <<1>>, ex |-> 0]
    ELSE IF ex > 0 /\ num[1] = 0 THEN Mk(sg, Tail(num), den, ex - 1)
    ELSE [sg |-> sg, num |-> num, den |-> den, ex |-> ex]

Zero == Mk(0, <<>>, <<1>>, 0)

Pow10(k) == IF k = 0 THEN 1 ELSE IF k = 1 THEN 10 ELSE IF k = 2 THEN 100 ELSE 1000

(* m * 10^e, the float literal "m e e" (m >= 0)                            *)
Sci(m, e) ==
    IF e >= 0 THEN Mk(1, ShiftUp(Limbs(m * Pow10(e % 4)), e \div 4), <<1>>, 0)
    ELSE LET x == (3 - e) \div 4
         IN  Mk(1, Limbs(m * Pow10(4 * x + e)), <<1>>, x)

(* a Python int as a number *)
R(n) == IF n >= 0 THEN Mk(1, Limbs(n), <<1>>, 0) ELSE Mk(-1, Limbs(-n), <<1>>, 0)

Neg(x) == [x EXCEPT !.sg = -x.sg]

Mul(x, y) ==
    Mk(x.sg * y.sg, NatMul(x.num, y.num), NatMul(x.den, y.den), x.ex + y.ex)

(* x / y for y # 0; a division by a whole number that divides Base or      *)
(* Base^2 (2, 64, ...) is the exact product with its decimal reciprocal    *)
Div(x, y) ==
    LET n == NatMul(x.num, y.den)
        d == NatMul(x.den, y.num)
        whole == y.den = <<1>> /\ y.ex = 0 /\ Len(y.num) = 1
    IN  IF whole /\ Base % y.num[1] = 0
        THEN Mul(x, Mk(y.sg, <<Base \div y.num[1]>>, <<1>>, 1))
        ELSE IF whole /\ (Base * Base) % y.num[1] = 0
        THEN Mul(x, Mk(y.sg, Limbs((Base * Base) \div y.num[1]), <<1>>, 2))
        ELSE IF y.ex > x.ex THEN Mk(x.sg * y.sg, ShiftUp(n, y.ex - x.ex), d, 0)
        ELSE Mk(x.sg * y.sg, n, d, x.ex - y.ex)

SignedSum(sa, a, sb, b, den, ex) ==
    IF sa = 0 THEN Mk(sb, b, den, ex)
    ELSE IF sb = 0 THEN Mk(sa, a, den, ex)
    ELSE IF sa = sb THEN Mk(sa, NatAdd(a, b), den, ex)
    ELSE LET c == NatCmp(a, b)
         IN  IF c = 0 THEN Zero
             ELSE IF c > 0 THEN Mk(sa, NatSub(a, b), den, ex)
             ELSE Mk(sb, NatSub(b, a), den, ex)

Add(x, y) ==
    LET e  == Max2(x.ex, y.ex)
        xn == ShiftUp(x.num, e - x.ex)
        yn == ShiftUp(y.num, e - y.ex)
    IN  IF x.den = y.den THEN SignedSum(x.sg, xn, y.sg, yn, x.den, e)
        ELSE SignedSum(x.sg, NatMul(xn, y.den), y.sg, NatMul(yn, x.den),
                       NatMul(x.den, y.den), e)

Sub(x, y) == Add(x, Neg(y))

Sq(x) == Mul(x, x)

Cmp(x, y) == Sub(x, y).sg

Lt(x, y) == Cmp(x, y) < 0
Le(x, y) == Cmp(x, y) <= 0
Gt(x, y) == Cmp(x, y) > 0
Ge(x, y) == Cmp(x, y) >= 0
Eq(x, y) == Cmp(x, y) = 0
IsZero(x) == x.sg = 0


(* np.sqrt(q): the non-negative root of q >= 0, held by its radicand.       *)
Root(q) == [root_of |-> q]

(* comparisons of a root with a number c >= 0, and of two roots            *)
RootGt(r, c) == Gt(r.root_of, Sq(c))
RootLe(r, c) == Le(r.root_of, Sq(c))
RootEq(r, c) == Eq(r.root_of, Sq(c))
RootGe2(r1, r2) == Ge(r1.root_of, r2.root_of)

(* root / c for c > 0 *)
RootDiv(r, c) == Root(Div(r.root_of, Sq(c)))

-----------------------------------------------------------------------------
(* 1. PARAMETRES: the sliders (min, max, default)                          *)

L_deck_min == 50
L_deck_default == 200
W_deck_min == 10
W_deck_default == 15
T_deck_min == Sci(10, -1)
T_deck_default == Sci(25, -1)
H_piers_min == 10
H_piers_default == 30
D_piers_min == Sci(20, -1)
D_piers_max == Sci(80, -1)
D_piers_default == Sci(40, -1)
V_wind_min == 0
V_wind_max == 100
V_wind_default == 40
H_wave_min == Sci(0, 0)
H_wave_max == Sci(200, -1)
H_wave_default == Sci(50, -1)
A_seismic_min == Sci(0, 0)
A_seismic_default == Sci(3, -1)

-----------------------------------------------------------------------------
(* 2. MOTEUR PHYSIQUE (MMC)                                                *)

np_pi == Mk(1, <<7930, 3589, 9265, 1415, 3>>, <<1>>, 4)
g == Sci(981, -2)

E == Sci(30, 9)
rho_c == 2500
rho_w == 1025
yield_limit == Sci(25, 6)

Area_pier(D) == Mul(np_pi, Sq(Div(D, R(2))))

I_pier(D) == Div(Mul(np_pi, Sq(Sq(D))), R(64))

Vol_deck(L, W, T) == Mul(R(L * W), T)

Vol_piers(Area, H) == Mul(Mul(Area, R(H)), R(2))

Mass_total(Vd, Vp) == Mul(Add(Vd, Vp), R(rho_c))

(* variant: the emerged height taken as water depth minus pier height *)
F_wind_SubmergedHeight(V, L, T, D, H, Hw) ==
    Mul(Mul(Mul(Sci(5, -1), Sci(12, -1)), R(V * V)),
        Add(Mul(R(L), T), Mul(D, Sub(Hw, R(H)))))

F_wind(V, L, T, D, H, Hw) ==
    Mul(Mul(Mul(Sci(5, -1), Sci(12, -1)), R(V * V)),
        Add(Mul(R(L), T), Mul(D, Sub(R(H), Hw))))

(* variant: the water depth not squared *)
F_water_Linear(D, Hw) ==
    Mul(Mul(Mul(Mul(Sci(5, -1), R(rho_w)), Sci(15, -1)), D), Hw)

F_water(D, Hw) ==
    Mul(Mul(Mul(Mul(Sci(5, -1), R(rho_w)), Sci(15, -1)), D), Sq(Hw))

F_seismic(M, A) == Mul(M, Mul(A, g))

Total_F_h(Fw, Fwa, Fs) == Div(Add(Add(Fw, Fwa), Fs), R(2))

F_buoyancy(Area, Hw) == Mul(Mul(Mul(Mul(Area, Hw), R(2)), R(rho_w)), g)

(* variant: the buoyancy added to the weight *)
Weight_net_AddsBuoyancy(M, Fb) == Add(Mul(M, g), Fb)

(* variant: the mass (kg) used as the weight (N) *)
Weight_net_MassOnly(M, Fb) == Sub(M, Fb)

Weight_net(M, Fb) == Sub(Mul(M, g), Fb)

Moment_base(Fw, Fwa, Fs, H, Hw) ==
    Add(Add(Mul(Fw, R(H)), Div(Mul(Fwa, Hw), R(2))), Div(Mul(Fs, R(H)), R(2)))

(* the float divisions of lines 46, 47 and 51 raise ZeroDivisionError on a *)
(* zero divisor; the operators below are applied to non-zero divisors only *)
(* variant: the net weight not shared between the two piers *)
sigma_axial_WholeWeight(Wn, Area) == Div(Wn, Area)

sigma_axial(Wn, Area) == Div(Div(Wn, R(2)), Area)

sigma_bending(Mo, D, I) == Div(Mul(Div(Mo, R(2)), Div(D, R(2))), I)

sigma_max(sa, sb) == Root(Add(Sq(sa), Sq(sb)))

max_d(Tot, H, I) == Div(Mul(Tot, R(H * H * H)), Mul(Mul(R(3), E), I))

NSamples == 20

(* variant: np.linspace(..., endpoint=False) *)
z_NoEndpoint(H) ==
    [i \in 1..NSamples |-> Mul(R(i - 1), Div(R(H), R(NSamples)))]

(* np.linspace(0, H, 20): start + i * step, step = (H - 0) / 19, the last  *)
(* sample set to the stop value                                            *)
z(H) ==
    [i \in 1..NSamples |->
        IF i = NSamples THEN R(H) ELSE Mul(R(i - 1), Div(R(H), R(NSamples - 1)))]

(* max_d * (z / H_piers) ** 2, elementwise; for H_piers = 0 every z is 0   *)
(* and numpy's 0 / 0 is nan                                                *)
NaN == [nan |-> TRUE]

IsNaN(x) == "nan" \in DOMAIN x

deflection_curve(md, zz, H) ==
    [i \in 1..Len(zz) |-> IF H = 0 THEN NaN ELSE Mul(md, Sq(Div(zz[i], R(H))))]

-----------------------------------------------------------------------------
(* BILAN D'INTEGRITE                                                       *)

(* variant: the banner switched at 0.8 of the yield limit *)
Banner_FromBandFloor(smax) ==
    IF RootGt(smax, Mul(Sci(8, -1), yield_limit)) THEN "RUPTURE" ELSE "STABLE"

(* variant: >= in place of > *)
Banner_AtOrAbove(smax) ==
    IF Ge(smax.root_of, Sq(yield_limit)) THEN "RUPTURE" ELSE "STABLE"

Banner(smax) == IF RootGt(smax, yield_limit) THEN "RUPTURE" ELSE "STABLE"


-----------------------------------------------------------------------------
(* The script, top to bottom.  Each assignment binds one name; a Python     *)
(* float division by zero raises ZeroDivisionError and ends the run at     *)
(* that line: the names the later lines would have bound, and what they    *)
(* would have rendered, are absent from the page.                          *)

Unset == "unset"

Unbound ==
    [ Area_pier |-> Unset, I_pier |-> Unset, Vol_deck |-> Unset,
      Vol_piers |-> Unset, Mass_total |-> Unset, F_wind |-> Unset,
      F_water |-> Unset, F_seismic |-> Unset, Total_F_h |-> Unset,
      F_buoyancy |-> Unset, Weight_net |-> Unset, Moment_base |-> Unset,
      sigma_axial |-> Unset, sigma_bending |-> Unset, sigma_max |-> Unset,
      max_d |-> Unset, z |-> Unset, deflection_curve |-> Unset,
      ratio |-> Unset, d_top |-> Unset, banner |-> Unset, raised |-> "none" ]

ZeroDivisionError(ns) == [ns EXCEPT !.raised = "ZeroDivisionError"]

(* the statements that bind a name or render the status, by line number    *)
Lines == <<28, 29, 30, 31, 32, 35, 36, 37, 38, 41, 42, 45, 46, 47, 48,
           51, 52, 53, 61, 77, 108>>

(* one statement: s holds the sliders' values, ns the names bound so far   *)
Statement(ln, s, ns) ==
    CASE ln = 28 -> [ns EXCEPT !.Area_pier = Area_pier(s.D_piers)]
      [] ln = 29 -> [ns EXCEPT !.I_pier = I_pier(s.D_piers)]
      [] ln = 30 -> [ns EXCEPT !.Vol_deck = Vol_deck(s.L_deck, s.W_deck, s.T_deck)]
      [] ln = 31 -> [ns EXCEPT !.Vol_piers = Vol_piers(ns.Area_pier, s.H_piers)]
      [] ln = 32 -> [ns EXCEPT !.Mass_total = Mass_total(ns.Vol_deck, ns.Vol_piers)]
      [] ln = 35 -> [ns EXCEPT !.F_wind = F_wind(s.V_wind, s.L_deck, s.T_deck,
                                                 s.D_piers, s.H_piers, s.H_wave)]
      [] ln = 36 -> [ns EXCEPT !.F_water = F_water(s.D_piers, s.H_wave)]
      [] ln = 37 -> [ns EXCEPT !.F_seismic = F_seismic(ns.Mass_total, s.A_seismic)]
      [] ln = 38 -> [ns EXCEPT !.Total_F_h =
                         Total_F_h(ns.F_wind, ns.F_water, ns.F_seismic)]
      [] ln = 41 -> [ns EXCEPT !.F_buoyancy = F_buoyancy(ns.Area_pier, s.H_wave)]
      [] ln = 42 -> [ns EXCEPT !.Weight_net = Weight_net(ns.Mass_total, ns.F_buoyancy)]
      [] ln = 45 -> [ns EXCEPT !.Moment_base =
                         Moment_base(ns.F_wind, ns.F_water, ns.F_seismic,
                                     s.H_piers, s.H_wave)]
      [] ln = 46 -> IF IsZero(ns.Area_pier) THEN ZeroDivisionError(ns)
                    ELSE [ns EXCEPT !.sigma_axial =
                              sigma_axial(ns.Weight_net, ns.Area_pier)]
      [] ln = 47 -> IF IsZero(ns.I_pier) THEN ZeroDivisionError(ns)
                    ELSE [ns EXCEPT !.sigma_bending =
                              sigma_bending(ns.Moment_base, s.D_piers, ns.I_pier)]
      [] ln = 48 -> [ns EXCEPT !.sigma_max = sigma_max(ns.sigma_axial, ns.sigma_bending)]
      [] ln = 51 -> IF IsZero(Mul(Mul(R(3), E), ns.I_pier)) THEN ZeroDivisionError(ns)
                    ELSE [ns EXCEPT !.max_d = max_d(ns.Total_F_h, s.H_piers, ns.I_pier)]
      [] ln = 52 -> [ns EXCEPT !.z = z(s.H_piers)]
      [] ln = 53 -> [ns EXCEPT !.deflection_curve =
                         deflection_curve(ns.max_d, ns.z, s.H_piers)]
      [] ln = 61 -> [ns EXCEPT !.ratio = RootDiv(ns.sigma_max, yield_limit)]
      [] ln = 77 -> [ns EXCEPT !.d_top =
                         ns.deflection_curve[Len(ns.deflection_curve)]]
      [] ln = 108 -> [ns EXCEPT !.banner = Banner(ns.sigma_max)]

RECURSIVE RunFrom(_, _, _)
RunFrom(i, s, ns) ==
    IF i > Len(Lines) \/ ns.raised # "none" THEN ns
    ELSE RunFrom(i + 1, s, Statement(Lines[i], s, ns))

Script(L, W, T, H, D, V, Hw, A) ==
    RunFrom(1,
            [ L_deck |-> L, W_deck |-> W, T_deck |-> T, H_piers |-> H,
              D_piers |-> D, V_wind |-> V, H_wave |-> Hw, A_seismic |-> A ],
            Unbound)

-----------------------------------------------------------------------------
(* State: the sliders' values and the page the last run rendered.          *)

VARIABLES L_deck, W_deck, T_deck, H_piers, D_piers, V_wind, H_wave, A_seismic,
          page

sliders == <<L_deck, W_deck, T_deck, H_piers, D_piers, V_wind, H_wave, A_seismic>>
vars == <<sliders, page>>

(* The positions the model moves each slider to: the ends of the range the *)
(* claims turn on and the default, and for the water depth H_wave_steps    *)
(* equal steps from 0 to 20 m (in hundredths, the slider's step).          *)
H_wave_steps == 2

L_deck_values == {L_deck_min, L_deck_default}
W_deck_values == {W_deck_min, W_deck_default}
T_deck_values == {T_deck_min, T_deck_default}
H_piers_values == {H_piers_min, H_piers_default}
(* variant: the diameter slider starting at 0.0 *)
D_piers_values_FromZero == {Sci(0, 0), D_piers_min, D_piers_default, D_piers_max}

D_piers_values == {D_piers_min, D_piers_default, D_piers_max}
V_wind_values == {V_wind_min, V_wind_default, V_wind_max}
H_wave_values ==
    {Sci(((k * 2000) \div H_wave_steps), -2) : k \in 0..H_wave_steps}
        \cup {H_wave_min, H_wave_default, H_wave_max}
A_seismic_values == {A_seismic_min, A_seismic_default}

(* The script is a deterministic function of the sliders: it is tabulated  *)
(* once over the positions the sliders can take and every rerun reads the  *)
(* table (f @@ <<>> equals f; it makes TLC hold the table as values).      *)
Positions ==
    L_deck_values \X W_deck_values \X T_deck_values \X H_piers_values
        \X D_piers_values \X V_wind_values
        \X H_wave_values \X A_seismic_values

ScriptRuns ==
    [i \in Positions |-> Script(i[1], i[2], i[3], i[4], i[5], i[6], i[7], i[8])]
        @@ <<>>

Init ==
    /\ L_deck = L_deck_default
    /\ W_deck = W_deck_default
    /\ T_deck = T_deck_default
    /\ H_piers = H_piers_default
    /\ D_piers = D_piers_default
    /\ V_wind = V_wind_default
    /\ H_wave = H_wave_default
    /\ A_seismic = A_seismic_default
    /\ page = ScriptRuns[<<L_deck, W_deck, T_deck, H_piers, D_piers, V_wind,
                            H_wave, A_seismic>>]

Rerun == page' = ScriptRuns[<<L_deck', W_deck', T_deck', H_piers', D_piers',
                             V_wind', H_wave', A_seismic'>>]

Slide_L_deck ==
    \E v \in L_deck_values \ {L_deck} :
        /\ L_deck' = v
        /\ UNCHANGED <<W_deck, T_deck, H_piers, D_piers, V_wind, H_wave, A_seismic>>
        /\ Rerun

Slide_W_deck ==
    \E v \in W_deck_values \ {W_deck} :
        /\ W_deck' = v
        /\ UNCHANGED <<L_deck, T_deck, H_piers, D_piers, V_wind, H_wave, A_seismic>>
        /\ Rerun

Slide_T_deck ==
    \E v \in T_deck_values \ {T_deck} :
        /\ T_deck' = v
        /\ UNCHANGED <<L_deck, W_deck, H_piers, D_piers, V_wind, H_wave, A_seismic>>
        /\ Rerun

Slide_H_piers ==
    \E v \in H_piers_values \ {H_piers} :
        /\ H_piers' = v
        /\ UNCHANGED <<L_deck, W_deck, T_deck, D_piers, V_wind, H_wave, A_seismic>>
        /\ Rerun

Slide_D_piers ==
    \E v \in D_piers_values \ {D_piers} :
        /\ D_piers' = v
        /\ UNCHANGED <<L_deck, W_deck, T_deck, H_piers, V_wind, H_wave, A_seismic>>
        /\ Rerun

Slide_V_wind ==
    \E v \in V_wind_values \ {V_wind} :
        /\ V_wind' = v
        /\ UNCHANGED <<L_deck, W_deck, T_deck, H_piers, D_piers, H_wave, A_seismic>>
        /\ Rerun

Slide_H_wave ==
    \E v \in H_wave_values \ {H_wave} :
        /\ H_wave' = v
        /\ UNCHANGED <<L_deck, W_deck, T_deck, H_piers, D_piers, V_wind, A_seismic>>
        /\ Rerun

Slide_A_seismic ==
    \E v \in A_seismic_values \ {A_seismic} :
        /\ A_seismic' = v
        /\ UNCHANGED <<L_deck, W_deck, T_deck, H_piers, D_piers, V_wind, H_wave>>
        /\ Rerun

Next ==
    \/ Slide_L_deck
    \/ Slide_W_deck
    \/ Slide_T_deck
    \/ Slide_H_piers
    \/ Slide_D_piers
    \/ Slide_V_wind
    \/ Slide_H_wave
    \/ Slide_A_seismic

Spec == Init /\ [][Next]_vars

-----------------------------------------------------------------------------
(* The integrity banner as a function of sigma_max alone: the script at    *)
(* line 107, for stresses drawn every half MPa from 0 to MaxSigma / 2 MPa  *)
(* (20 MPa is 0.8 of the yield limit and 25 MPa the limit itself).         *)

MaxSigma == 120

SigmaSamples == {Mul(R(k), Sci(5, 5)) : k \in 0..MaxSigma}

BeforeBanner(s) ==
    [Unbound EXCEPT !.sigma_max = Root(Sq(s)),
                    !.ratio = RootDiv(Root(Sq(s)), yield_limit)]

InitBanner ==
    /\ L_deck = L_deck_default
    /\ W_deck = W_deck_default
    /\ T_deck = T_deck_default
    /\ H_piers = H_piers_default
    /\ D_piers = D_piers_default
    /\ V_wind = V_wind_default
    /\ H_wave = H_wave_default
    /\ A_seismic = A_seismic_default
    /\ \E s \in SigmaSamples : page = BeforeBanner(s)

RenderBanner ==
    /\ page.banner = Unset
    /\ page.raised = "none"
    /\ page' = [page EXCEPT !.banner = Banner(page.sigma_max)]
    /\ UNCHANGED sliders

NextBanner == RenderBanner

SpecBanner == InitBanner /\ [][NextBanner]_vars

-----------------------------------------------------------------------------
(* Vocabulary of the properties.                                           *)

Completed == page.raised = "none"

Rendered == Completed /\ page.banner # Unset

One == Sci(1, 0)
BandFloor == Sci(8, -1)

(* safety_ratio in the band 0.8 < ratio <= 1.0 *)
InCriticalBand == RootGt(page.ratio, BandFloor) /\ RootLe(page.ratio, One)

Submerged == Gt(H_wave, R(H_piers))

(* a step that raises the water depth and stays at or below the pier top   *)
WaterRaised == Lt(H_wave, H_wave') /\ Le(H_wave', R(H_piers'))

WindRaised == V_wind < V_wind' /\ Le(H_wave, R(H_piers))

SeismicRaised == Lt(A_seismic, A_seismic') /\ Le(H_wave, R(H_piers))

ZeroHazard == V_wind = 0 /\ IsZero(H_wave) /\ IsZero(A_seismic)

-----------------------------------------------------------------------------
C2_FailureIffAboveYield ==
    page.banner # Unset =>
        (page.banner = "RUPTURE" <=> RootGt(page.sigma_max, yield_limit))

C2_Witness ==
    /\ page.banner = "STABLE"
    /\ RootEq(page.sigma_max, yield_limit)

(* C3 as the spec states it: the emerged pier height is clamped to >= 0,   *)
(* so the exposed area is at least deck_length * deck_thickness and the    *)
(* wind force is never negative.                                           *)
C3_WindAreaClamped ==
    Completed =>
        /\ Ge(page.F_wind, Zero)
        /\ Ge(page.F_wind,
              Mul(Mul(Mul(Sci(5, -1), Sci(12, -1)), R(V_wind * V_wind)),
                  Mul(R(L_deck), T_deck)))

(* C4 as the spec states it: with the water at or below the pier top,      *)
(* raising the water depth alone never decreases combined_stress.          *)
C4_StressMonotoneInWater ==
    [][WaterRaised => RootGe2(page'.sigma_max, page.sigma_max)]_vars

(* C4 amended: with the water at or below the pier top, raising the water  *)
(* depth alone never decreases wave_force, never increases axial_stress,   *)
(* and with wind_speed = 0 never decreases base_moment or bending_stress   *)
(* (combined_stress itself can decrease).                                  *)
C4_WaterMonotoneParts ==
    [][WaterRaised =>
        /\ Ge(page'.F_water, page.F_water)
        /\ Le(page'.sigma_axial, page.sigma_axial)
        /\ V_wind = 0 =>
              /\ Ge(page'.Moment_base, page.Moment_base)
              /\ Ge(page'.sigma_bending, page.sigma_bending)]_vars

C4_Witness ==
    /\ Completed
    /\ Gt(H_wave, H_wave_default)
    /\ Le(H_wave, R(H_piers))
    /\ V_wind = 0
    /\ Gt(page.F_water, Zero)

(* C5: with the water at or below the pier top, raising wind_speed alone   *)
(* never decreases combined_stress, and raising seismic_acceleration alone *)
(* never decreases combined_stress.                                        *)
C5_StressMonotoneInWindAndSeismic ==
    [][(WindRaised \/ SeismicRaised) =>
        RootGe2(page'.sigma_max, page.sigma_max)]_vars

C5_Witness ==
    /\ Completed
    /\ V_wind > V_wind_default
    /\ Gt(A_seismic, A_seismic_min)
    /\ Le(H_wave, R(H_piers))
    /\ Gt(page.F_wind, Zero)
    /\ Gt(page.F_seismic, Zero)

(* C6: with wind_speed = 0, water_depth = 0 and seismic_acceleration = 0   *)
(* the three horizontal forces, the buoyancy force and the base moment are *)
(* 0, bending_stress = 0 and combined_stress = axial_stress =              *)
(* (total_mass * g / 2) / pier_cross_section_area.                         *)
C6_ZeroHazardBaseline ==
    ZeroHazard =>
        /\ Completed
        /\ IsZero(page.F_wind)
        /\ IsZero(page.F_water)
        /\ IsZero(page.F_seismic)
        /\ IsZero(page.Total_F_h)
        /\ IsZero(page.F_buoyancy)
        /\ IsZero(page.Moment_base)
        /\ IsZero(page.sigma_bending)
        /\ Ge(page.sigma_axial, Zero)
        /\ RootEq(page.sigma_max, page.sigma_axial)
        /\ Eq(page.sigma_axial,
              Div(Div(Mul(page.Mass_total, g), R(2)), page.Area_pier))

C6_Witness == ZeroHazard /\ Completed /\ Gt(page.sigma_axial, Zero)

(* C7: the deflection profile is 20 samples at evenly spaced heights from  *)
(* 0 to pier_height; the first has height 0 and displacement exactly 0,    *)
(* the last has displacement max_deflection.                               *)
C7_DeflectionProfile ==
    /\ Completed
    /\ Len(page.z) = NSamples
    /\ Len(page.deflection_curve) = NSamples
    /\ IsZero(page.z[1])
    /\ Eq(page.z[NSamples], R(H_piers))
    /\ \A i \in 1..(NSamples - 1) :
          Eq(Sub(page.z[i + 1], page.z[i]), Div(R(H_piers), R(NSamples - 1)))
    /\ IsZero(page.deflection_curve[1])
    /\ Eq(page.deflection_curve[NSamples], page.max_d)
    /\ Eq(page.d_top, page.max_d)

C7_Witness ==
    /\ Completed
    /\ H_piers = H_piers_min
    /\ Gt(page.max_d, Zero)
    /\ Gt(page.d_top, page.deflection_curve[NSamples - 1])

(* C8: in the accepted ranges no divisor (pier section area, moment of     *)
(* inertia, pier height, yield limit) is zero; every run completes with    *)
(* every force and stress, the ratio, the 20-sample profile and exactly    *)
(* one status; a stress above the yield limit is a completed run whose     *)
(* status is Failure.                                                      *)
C8_RunsToCompletion ==
    /\ ~IsZero(page.Area_pier)
    /\ ~IsZero(page.I_pier)
    /\ H_piers # 0
    /\ ~IsZero(yield_limit)
    /\ page.raised = "none"
    /\ Len(page.deflection_curve) = NSamples
    /\ \A i \in 1..NSamples : ~IsNaN(page.deflection_curve[i])
    /\ page.banner \in {"RUPTURE", "STABLE"}
    /\ RootGt(page.sigma_max, yield_limit) => page.banner = "RUPTURE"

C8_Witness ==
    /\ page.raised = "none"
    /\ D_piers = D_piers_min
    /\ H_piers = H_piers_min
    /\ RootGt(page.sigma_max, yield_limit)
    /\ page.banner = "RUPTURE"
    /\ Len(page.deflection_curve) = NSamples

(* C9: over the slider ranges, also where the wind term is negative        *)
(* because the water stands above the pier top, the horizontal force per   *)
(* pier and the base moment are >= 0, so max_deflection and every sample   *)
(* of the profile are >= 0 and the profile never decreases from base to    *)
(* top.                                                                    *)
C9_NonNegativeLoadAndProfile ==
    /\ Completed
    /\ Ge(page.Total_F_h, Zero)
    /\ Ge(page.Moment_base, Zero)
    /\ Ge(page.max_d, Zero)
    /\ \A i \in 1..NSamples : Ge(page.deflection_curve[i], Zero)
    /\ \A i \in 1..(NSamples - 1) :
          Le(page.deflection_curve[i], page.deflection_curve[i + 1])

C9_Witness ==
    /\ Completed
    /\ Submerged
    /\ Lt(page.F_wind, Zero)
    /\ IsZero(A_seismic)
    /\ Gt(page.Total_F_h, Zero)

(* C10: over the slider ranges, also with the water above the pier top,    *)
(* the buoyancy force is strictly smaller than the total weight: the net   *)
(* weight and the axial stress are strictly positive.                      *)
C10_NetWeightPositive ==
    /\ Completed
    /\ Lt(page.F_buoyancy, Mul(page.Mass_total, g))
    /\ Gt(page.Weight_net, Zero)
    /\ Gt(page.sigma_axial, Zero)

C10_Witness ==
    /\ Completed
    /\ Submerged
    /\ W_deck = W_deck_min
    /\ D_piers = D_piers_max
    /\ Gt(page.F_buoyancy, Zero)
    /\ Gt(page.Weight_net, Zero)

=============================================================================
